---- MODULE Spec2Model ----
(***************************************************************************)
(* The ELPHADEAL launcher (elphadeal.js): command dispatch, package shim,  *)
(* project scaffolder and WASI sandbox bootstrap.                          *)
(*                                                                         *)
(* Two variants of the launcher are in the repository: src/elphadeal.js    *)
(* (create takes an optional template package) and src/unnamed/part_000    *)
(* (create takes only a project name).  The variable `variant` says which  *)
(* one is running; they differ in the help banner and in `create` only.    *)
(*                                                                         *)
(* One run of the process is: Dispatch (the chain of comparisons on        *)
(* process.argv[2]), then exactly one handler action, then Exit (the       *)
(* settlement of the promise returned by run(), lines 219-224).            *)
(*                                                                         *)
(* Representation.                                                         *)
(*   - a path is a sequence of segments, relative to the working           *)
(*     directory: "sub/app/index.js" is <<"sub", "app", "index.js">>;      *)
(*   - a text (a file's content, a printed message) is a sequence of       *)
(*     lines and a line is a sequence of string segments, so that an       *)
(*     interpolated `${pkg}` is a segment of its own;                      *)
(*   - the filesystem is [dirs, files]: the set of directories and a       *)
(*     function from the paths of the files to their contents;             *)
(*   - every observable side effect is appended to `effects` as            *)
(*     [op, path, data], in program order.                                 *)
(* The host package tool (npm) and the binary module are black boxes:      *)
(* whether they succeed is the environment's choice (the `oracle`), and    *)
(* the files npm itself writes are not tracked.                            *)
(***************************************************************************)
EXTENDS Integers, Sequences, FiniteSets, TLC

VARIABLES variant, args, cwd, fs0, pc, kind, oracle, fs, effects, wasi, thrown, exitCode

vars == <<variant, args, cwd, fs0, pc, kind, oracle, fs, effects, wasi, thrown, exitCode>>

(***************************************************************************)
(* Bounds and input alphabets                                              *)
(***************************************************************************)
\* longest command line modelled: process.argv.slice(2) has at most MaxArgs elements
MaxArgs == 3

Variants == {"elphadeal.js", "part_000"}

\* the literal command names and aliases the launcher compares against
CommandWords == {"help", "init", "create", "install", "add", "i",
                 "uninstall", "remove", "rm", "un"}

\* first arguments that are no command: a script path, the inline flag, a near miss
OtherFirst == {"app.js", "-e", "--help"}

\* trailing arguments: two plain names, a nested path and the empty string
Words == {"lodash", "app", "sub/app", ""}

RECURSIVE SeqsUpTo(_, _)
SeqsUpTo(S, n) ==
    IF n = 0 THEN {<<>>}
    ELSE LET shorter == SeqsUpTo(S, n - 1)
         IN  shorter \cup {Append(s, x) : s \in shorter, x \in S}

ArgVectors ==
    {<<>>} \cup {<<first>> \o rest : first \in CommandWords \cup OtherFirst,
                                     rest \in SeqsUpTo(Words, MaxArgs - 1)}

WorkingDirs == {<<"home", "proj">>, <<"srv", "app">>}

\* a manifest the user already had: the launcher never produces this text
UserManifest == << <<"{">>, <<"name", "str", "mine">>, <<"}">> >>

NoFiles == [p \in {} |-> <<>>]

InitialFileSystems ==
    {[dirs |-> d, files |-> f] :
        d \in SUBSET {<<"app">>, <<"sub">>},
        f \in {NoFiles, [p \in {<<"package.json">>} |-> UserManifest]}}

(***************************************************************************)
(* JavaScript values                                                       *)
(***************************************************************************)
\* the value of an index past the end of process.argv
Undefined == "<undefined>"

\* process.argv[i], i >= 2, for av = process.argv.slice(2)
argv(av, i) == IF i - 1 \in 1..Len(av) THEN av[i - 1] ELSE Undefined

\* !x for a string or undefined
Falsy(x) == x = Undefined \/ x = ""

\* a || b
OrElse(a, b) == IF Falsy(a) THEN b ELSE a

(***************************************************************************)
(* path                                                                    *)
(***************************************************************************)
\* the segments of a path given on the command line
ParsePath(s) == IF s = "sub/app" THEN <<"sub", "app">> ELSE <<s>>

\* path.basename of a path given as segments
basename(p) == IF p = <<>> THEN "" ELSE p[Len(p)]

\* path.basename(process.cwd())
cwdBasename(c) == basename(c)

dirname(p) == IF p = <<>> THEN <<>> ELSE SubSeq(p, 1, Len(p) - 1)

\* path.join(projectName, file)
projectPath(projectName, file) == ParsePath(projectName) \o <<file>>

(***************************************************************************)
(* The environment's choices for one run                                   *)
(***************************************************************************)
\* which filesystem mutation is refused by the host (EACCES), if any: the
\* mkdir, or the write of the file with that base name
FsFaults == {"none", "mkdir", "package.json", "App.js", "index.js"}

\* error codes a fault of the sandbox path can carry ("" is an error without
\* a code, such as a WebAssembly.CompileError)
FaultCodes == {"ERR_WASI_NOT_FOUND", "ENOENT", ""}

\* how the sandbox path ends: the module returns, the module signals its own
\* exit from start, or a fault at one of the three stages
WasmOutcomes ==
    {<<"ok", "">>, <<"start", "process.exit">>}
        \cup {<<stage, code>> : stage \in {"read", "instantiate", "start"}, code \in FaultCodes}

Quiet == [npm |-> "ok", fsFault |-> "none", wasm |-> <<"ok", "">>]

\* the choices that can matter to each handler
Oracles(k) ==
    CASE k = "Install"   -> {[Quiet EXCEPT !.npm = n, !.fsFault = f] :
                                n \in {"ok", "fail"}, f \in {"none", "package.json"}}
      [] k = "Uninstall" -> {[Quiet EXCEPT !.npm = n] : n \in {"ok", "fail"}}
      [] k = "Init"      -> {[Quiet EXCEPT !.fsFault = f] : f \in {"none", "package.json"}}
      [] k = "Create"    -> {[Quiet EXCEPT !.npm = n, !.fsFault = f] :
                                n \in {"ok", "fail"}, f \in FsFaults}
      [] k = "Execute"   -> {[Quiet EXCEPT !.wasm = w] : w \in WasmOutcomes}
      [] OTHER           -> {Quiet}

(***************************************************************************)
(* The running process: filesystem, side effects, sandbox, pending error   *)
(***************************************************************************)
NoError == <<>>

Error(code, message) == <<[code |-> code, message |-> message]>>

\* the process right after start-up, in filesystem f
Fresh(f) == [fs |-> f, effects |-> <<>>, wasi |-> <<>>, thrown |-> NoError]

\* a statement inside a block is skipped once an exception is pending
Skip(p, q) == IF p.thrown # NoError THEN p ELSE q

Effect(p, op, path, data) ==
    Skip(p, [p EXCEPT !.effects = Append(@, [op |-> op, path |-> path, data |-> data])])

Throw(p, code, message) == Skip(p, [p EXCEPT !.thrown = Error(code, message)])

\* console.log(line), process.stdout.write(text)
log(p, line) == Effect(p, "stdout", <<>>, <<line>>)

\* console.error(line)
error(p, line) == Effect(p, "stderr", <<>>, <<line>>)

\* fs.existsSync(path)
existsSync(f, path) == path \in f.dirs \/ path \in DOMAIN f.files

ParentExists(f, path) == Len(path) <= 1 \/ dirname(path) \in f.dirs

\* fs.mkdirSync(path), not recursive
mkdirSync(p, path, o) ==
    IF o.fsFault = "mkdir" THEN Throw(p, "EACCES", "permission denied, mkdir")
    ELSE IF existsSync(p.fs, path) THEN Throw(p, "EEXIST", "file already exists, mkdir")
    ELSE IF ~ParentExists(p.fs, path) THEN Throw(p, "ENOENT", "no such file or directory, mkdir")
    ELSE Skip(p, Effect([p EXCEPT !.fs.dirs = @ \cup {path}], "mkdir", path, <<>>))

Put(files, path, text) ==
    [q \in DOMAIN files \cup {path} |-> IF q = path THEN text ELSE files[q]]

\* fs.writeFileSync(path, text): creates or overwrites the file
writeFileSync(p, path, text, o) ==
    IF o.fsFault = basename(path) THEN Throw(p, "EACCES", "permission denied, open")
    ELSE IF path \in p.fs.dirs THEN Throw(p, "EISDIR", "illegal operation on a directory, open")
    ELSE IF ~ParentExists(p.fs, path) THEN Throw(p, "ENOENT", "no such file or directory, open")
    ELSE Skip(p, Effect([p EXCEPT !.fs.files = Put(@, path, text)], "write", path, text))

\* execSync(command, {cwd: dir, stdio: 'inherit'}): the host tool runs once and
\* the call throws when it exits non-zero
execSync(p, command, dir, o) ==
    LET ran == Effect(p, "exec", dir, <<command>>)
    IN  IF o.npm = "fail" THEN Throw(ran, "", "Command failed") ELSE ran

(***************************************************************************)
(* JSON.stringify(object, null, 2)                                         *)
(* An object is a sequence of <<key, value>>; a value is <<"str", s>> for  *)
(* a string and <<"obj">> \o (keys and strings) for a nested object.       *)
(***************************************************************************)
Str(s) == <<"str", s>>

EmptyObject == <<"obj">>

stringify(object) ==
    << <<"{">> >> \o [i \in 1..Len(object) |-> <<object[i][1]>> \o object[i][2]] \o << <<"}">> >>

(***************************************************************************)
(* try { ... } catch (e) { ... }                                           *)
(***************************************************************************)
Pending(p) == p.thrown # NoError

Caught(p) == [p EXCEPT !.thrown = NoError]

\* catch (e) { console.error(line) }
catch(p, line) == IF Pending(p) THEN error(Caught(p), line) ELSE p

(***************************************************************************)
(* help, lines 11-48                                                       *)
(***************************************************************************)
\* require('./package.json').version of the launcher's own package
PackageVersion == "1.0.0"

CreateHelpLine(v) ==
    IF v = "elphadeal.js"
    THEN <<"  create <pkg> <name> Create a new project from a specific template package">>
    ELSE <<"  create <name>      Create a new project folder with boilerplate">>

Banner(v) ==
    << <<"ELPHADEAL JavaScript Runtime v", OrElse(PackageVersion, "1.0.0")>>,
       <<"Usage:">>,
       <<"  ./elphadeal.js [command|file] [options]">>,
       <<"Commands:">>,
       CreateHelpLine(v),
       <<"  init               Initialize a new package.json in current folder">>,
       <<"  install <package>  Install a package from npm (alias: add)">>,
       <<"  uninstall <pkg>    Remove a package from node_modules (alias: remove)">>,
       <<"  help               Show this help message">>,
       <<"Capabilities:">>,
       <<"Built with Goja (Go) and Node.js WASI.">> >>

Help(v, p) == Effect(p, "stdout", <<>>, Banner(v))

(***************************************************************************)
(* install | add | i, lines 50-73                                          *)
(***************************************************************************)
\* mutant: the short alias is not compared
IsInstallNoShort(cmd) == cmd = "install" \/ cmd = "add"

IsInstall(cmd) == cmd = "install" \/ cmd = "add" \/ cmd = "i"

\* the manifest Install writes when there is none, lines 61-65
InstallManifest(c) ==
    << <<"name", Str(cwdBasename(c))>>,
       <<"version", Str("1.0.0")>>,
       <<"main", Str("index.js")>> >>

\* lines 60-66: ensure package.json exists
EnsureManifest(p, c, o) ==
    IF ~existsSync(p.fs, <<"package.json">>)
    THEN writeFileSync(p, <<"package.json">>, stringify(InstallManifest(c)), o)
    ELSE p

\* mutant: the host tool is started before the manifest is ensured
InstallPackageToolFirst(p, pkg, c, o) ==
    LET installed == execSync(p, <<"npm", "install", pkg>>, <<>>, o)
        ensured   == EnsureManifest(installed, c, o)
        ready     == log(ensured, <<"\n[ELPHADEAL] Package ", pkg, " is ready.">>)
    IN  catch(ready, <<"Installation failed.">>)

\* lines 58-71: the try block and its catch
InstallPackage(p, pkg, c, o) ==
    LET ensured   == EnsureManifest(p, c, o)
        installed == execSync(ensured, <<"npm", "install", pkg>>, <<>>, o)
        ready     == log(installed, <<"\n[ELPHADEAL] Package ", pkg, " is ready.">>)
    IN  catch(ready, <<"Installation failed.">>)

\* mutant: the package name is not checked before the install starts
InstallEager(av, c, p, o) ==
    InstallPackage(log(p, <<"[ELPHADEAL] Installing ", argv(av, 3), " via npm-shim...">>),
                   argv(av, 3), c, o)

Install(av, c, p, o) ==
    LET pkg == argv(av, 3)
    IN  IF Falsy(pkg)
        THEN log(p, <<"Usage: ./elphadeal.js install <package-name>">>)
        ELSE InstallPackage(log(p, <<"[ELPHADEAL] Installing ", pkg, " via npm-shim...">>),
                            pkg, c, o)

(***************************************************************************)
(* uninstall | remove | rm | un, lines 75-90                               *)
(***************************************************************************)
IsUninstall(cmd) == cmd = "uninstall" \/ cmd = "remove" \/ cmd = "rm" \/ cmd = "un"

Uninstall(av, p, o) ==
    LET pkg == argv(av, 3)
    IN  IF Falsy(pkg)
        THEN log(p, <<"Usage: ./elphadeal.js uninstall <package-name>">>)
        ELSE LET removing == log(p, <<"[ELPHADEAL] Removing ", pkg, "...">>)
                 removed  == execSync(removing, <<"npm", "uninstall", pkg>>, <<>>, o)
                 done     == log(removed, <<"\n[ELPHADEAL] Package ", pkg, " removed.">>)
             IN  catch(done, <<"Uninstallation failed.">>)

(***************************************************************************)
(* init, lines 92-110                                                      *)
(***************************************************************************)
defaultPkg(c) ==
    << <<"name", Str(cwdBasename(c))>>,
       <<"version", Str("1.0.0")>>,
       <<"description", Str("An Elphadeal Project")>>,
       <<"main", Str("index.js")>>,
       <<"scripts", <<"obj", "start", "elphadeal index.js">>>>,
       <<"dependencies", EmptyObject>> >>

\* mutant: the manifest is written without looking for an existing one
InitOverwrites(c, p, o) ==
    log(writeFileSync(p, <<"package.json">>, stringify(defaultPkg(c)), o),
        <<"[ELPHADEAL] Initialized package.json">>)

\* no try block here: a failed write leaves the exception pending
InitCmd(c, p, o) ==
    IF existsSync(p.fs, <<"package.json">>)
    THEN log(p, <<"package.json already exists.">>)
    ELSE log(writeFileSync(p, <<"package.json">>, stringify(defaultPkg(c)), o),
             <<"[ELPHADEAL] Initialized package.json">>)

(***************************************************************************)
(* create, src/elphadeal.js lines 112-192                                  *)
(***************************************************************************)
\* lines 113-115
templateOrName(av) == argv(av, 3)

projectName(av) == OrElse(argv(av, 4), templateOrName(av))

\* mutant: an empty project name no longer counts as given
isTemplatedTruthy(av) == ~Falsy(argv(av, 4))

isTemplated(av) == argv(av, 4) # Undefined

\* lines 136-141
pkgData(name) ==
    << <<"name", Str(name)>>,
       <<"version", Str("0.1.0")>>,
       <<"main", Str("index.js")>>,
       <<"dependencies", EmptyObject>> >>

\* lines 153-163
TemplateIndex(template, name) ==
    << <<"const pkg = require('", template, "');">>,
       <<"console.log('--- ELPHADEAL TEMPLATE APP: ", template, " ---');">>,
       <<"console.log('Loaded package:', typeof pkg === 'object' ? Object.keys(pkg) : typeof pkg);">>,
       <<"const root = document.createElement('div');">>,
       <<"root.innerHTML = '<h1>Project: ", name, "</h1><p>Template: ", template, " is ready.</p>';">>,
       <<"document.body.appendChild(root);">>,
       <<"renderToConsole(document.body);">> >>

\* lines 165-170
BoilerplateIndex ==
    << <<"const App = require('./App');">>,
       <<"console.log('--- ELPHADEAL BOILERPLATE STARTING ---');">>,
       <<"document.body.appendChild(App());">>,
       <<"renderToConsole(document.body);">> >>

\* lines 173-180
BoilerplateApp ==
    << <<"function App() {">>,
       <<"  const div = document.createElement('div');">>,
       <<"  div.innerHTML = 'Hello from Elphadeal!';">>,
       <<"  return div;">>,
       <<"}">>,
       <<"module.exports = App;">> >>

\* lines 144-148: install the template package inside the new directory
ApplyTemplate(p, av, o) ==
    IF isTemplated(av)
    THEN execSync(log(p, <<"[ELPHADEAL] Applying template/dependency: ", templateOrName(av), "...">>),
                  <<"npm", "install", templateOrName(av)>>, ParsePath(projectName(av)), o)
    ELSE p

\* lines 150-183: App.js in the default branch only, then index.js
GenerateSources(p, av, o) ==
    IF isTemplated(av)
    THEN writeFileSync(p, projectPath(projectName(av), "index.js"),
                       TemplateIndex(templateOrName(av), projectName(av)), o)
    ELSE writeFileSync(writeFileSync(p, projectPath(projectName(av), "App.js"), BoilerplateApp, o),
                       projectPath(projectName(av), "index.js"), BoilerplateIndex, o)

\* lines 185-186
Congratulate(p, name) ==
    log(log(p, <<"\n[ELPHADEAL] Successfully created ", name, "!">>),
        <<"To run your app:\n  cd ", name, "\n  ../elphadeal.js index.js">>)

\* lines 188-190
CreateCatch(p) ==
    IF Pending(p)
    THEN error(Caught(p), <<"Failed to create project:", p.thrown[1].message>>)
    ELSE p

\* mutant: the sources are generated before the template package is installed
ScaffoldSourcesFirst(p, av, o) ==
    LET made      == mkdirSync(p, ParsePath(projectName(av)), o)
        manifest  == writeFileSync(made, projectPath(projectName(av), "package.json"),
                                   stringify(pkgData(projectName(av))), o)
        generated == GenerateSources(manifest, av, o)
        seeded    == ApplyTemplate(generated, av, o)
    IN  CreateCatch(Congratulate(seeded, projectName(av)))

\* lines 130-190: the try block and its catch
Scaffold(p, av, o) ==
    LET made      == mkdirSync(p, ParsePath(projectName(av)), o)
        manifest  == writeFileSync(made, projectPath(projectName(av), "package.json"),
                                   stringify(pkgData(projectName(av))), o)
        seeded    == ApplyTemplate(manifest, av, o)
        generated == GenerateSources(seeded, av, o)
    IN  CreateCatch(Congratulate(generated, projectName(av)))

Create(av, p, o) ==
    IF Falsy(templateOrName(av))
    THEN log(log(p, <<"Usage: ./elphadeal.js create [template] <project-name>">>),
             <<"Example: ./elphadeal.js create lodash my-lodash-app">>)
    ELSE IF existsSync(p.fs, ParsePath(projectName(av)))
    THEN error(p, <<"Error: Directory \"", projectName(av), "\" already exists.">>)
    ELSE Scaffold(log(p, <<"[ELPHADEAL] Creating new project \"", projectName(av), "\"...">>),
                  av, o)

(***************************************************************************)
(* create, src/unnamed/part_000 lines 112-178                              *)
(***************************************************************************)
\* String.prototype.toUpperCase on the names of the model
toUpperCase(s) ==
    CASE s = "lodash"  -> "LODASH"
      [] s = "app"     -> "APP"
      [] s = "sub/app" -> "SUB/APP"
      [] OTHER         -> s

\* line 113
projectName0(av) == argv(av, 3)

\* lines 139-153
Index0(name) ==
    << <<"const App = require('./App');">>,
       <<"console.log('--- ELPHADEAL APP STARTING ---');">>,
       <<"document.body.appendChild(App());">>,
       <<"renderToConsole(document.body);">>,
       <<"const canvas = createCanvas(80, 10);">>,
       <<"ctx.fillText('WELCOME TO ' + '", toUpperCase(name), "', 5, 4, '37;1');">>,
       <<"canvas.flush();">> >>

\* lines 156-169
App0 ==
    << <<"function App() {">>,
       <<"  const div = document.createElement('div');">>,
       <<"  div.id = 'root';">>,
       <<"  div.innerHTML = 'Hello from Elphadeal Component!';">>,
       <<"  div.appendChild(span);">>,
       <<"  return div;">>,
       <<"}">>,
       <<"module.exports = App;">> >>

\* lines 126-176: the try block and its catch; index.js is written before App.js
Scaffold0(p, av, o) ==
    LET name     == projectName0(av)
        made     == mkdirSync(p, ParsePath(name), o)
        manifest == writeFileSync(made, projectPath(name, "package.json"),
                                  stringify(pkgData(name)), o)
        index    == writeFileSync(manifest, projectPath(name, "index.js"), Index0(name), o)
        app      == writeFileSync(index, projectPath(name, "App.js"), App0, o)
    IN  CreateCatch(Congratulate(app, name))

Create0(av, p, o) ==
    IF Falsy(projectName0(av))
    THEN log(p, <<"Usage: ./elphadeal.js create <project-name>">>)
    ELSE IF existsSync(p.fs, ParsePath(projectName0(av)))
    THEN error(p, <<"Error: Directory \"", projectName0(av), "\" already exists.">>)
    ELSE Scaffold0(log(p, <<"[ELPHADEAL] Scaffolding new browser app in ./", projectName0(av), "...">>),
                   av, o)

(***************************************************************************)
(* The sandbox bootstrap, lines 194-216                                    *)
(***************************************************************************)
\* line 8: path.join(__dirname, 'main.wasm')
wasmPath == "__dirname/main.wasm"

\* mutant: the first trailing argument is consumed instead of forwarded
WasiArgsDropFirst(av) == <<wasmPath>> \o SubSeq(av, 2, Len(av))

\* line 196
WasiArgs(av) == <<wasmPath>> \o av

\* lines 201-204: guest name -> host path
Preopens == {<<".", ".">>, <<"/", "/">>}

\* lines 194-205: new WASI({...})
NewWasi(p, av, c) ==
    Effect([p EXCEPT !.wasi = <<[args |-> WasiArgs(av), pwd |-> c, preopens |-> Preopens]>>],
           "wasi", <<>>, <<WasiArgs(av)>>)

\* one stage of the bootstrap: it is attempted, and faults if the environment says so
Stage(p, stage, o) ==
    LET tried == Effect(p, stage, <<wasmPath>>, <<>>)
    IN  IF o.wasm[1] = stage THEN Throw(tried, o.wasm[2], "fault at " \o stage) ELSE tried

\* lines 212-216: the module's own exit is not an error
StartCatch(p) ==
    IF Pending(p) /\ p.thrown[1].code = "process.exit" THEN Caught(p) ELSE p

Execute(av, c, p, o) ==
    LET context      == NewWasi(p, av, c)
        loaded       == Stage(context, "read", o)
        instantiated == Stage(loaded, "instantiate", o)
    IN  StartCatch(Stage(instantiated, "start", o))

(***************************************************************************)
(* run(), lines 7-217, and its settlement, lines 219-224                   *)
(***************************************************************************)
\* mutant: the comparison with 'init' is missing from the chain
ClassifyNoInit(av) ==
    LET cmd == argv(av, 2)
    IN  IF cmd = "help" THEN "Help"
        ELSE IF IsInstall(cmd) THEN "Install"
        ELSE IF IsUninstall(cmd) THEN "Uninstall"
        ELSE IF cmd = "create" THEN "Create"
        ELSE "Execute"

\* the chain of comparisons on process.argv[2]
Classify(av) ==
    LET cmd == argv(av, 2)
    IN  IF cmd = "help" THEN "Help"
        ELSE IF IsInstall(cmd) THEN "Install"
        ELSE IF IsUninstall(cmd) THEN "Uninstall"
        ELSE IF cmd = "init" THEN "Init"
        ELSE IF cmd = "create" THEN "Create"
        ELSE "Execute"

CreateOf(v, av, p, o) == IF v = "elphadeal.js" THEN Create(av, p, o) ELSE Create0(av, p, o)

\* the body of the branch taken
Handle(k, v, av, c, p, o) ==
    CASE k = "Help"      -> Help(v, p)
      [] k = "Install"   -> Install(av, c, p, o)
      [] k = "Uninstall" -> Uninstall(av, p, o)
      [] k = "Init"      -> InitCmd(c, p, o)
      [] k = "Create"    -> CreateOf(v, av, p, o)
      [] k = "Execute"   -> Execute(av, c, p, o)

\* console.error(err): the error in full
Inspect(err) == <<"Error: ", err.message, " code: ", err.code>>

\* mutant: a missing file is silenced as well
SuppressedAnyNotFound(err) == err.code \in {"ERR_WASI_NOT_FOUND", "ENOENT"}

\* line 220
Suppressed(err) == err.code = "ERR_WASI_NOT_FOUND"

\* run().catch(...): a rejection exits 1, printed unless suppressed; otherwise
\* the process ends with code 0 when run() returns
Settle(p) ==
    IF Pending(p)
    THEN [proc |-> IF Suppressed(p.thrown[1]) THEN Caught(p)
                   ELSE error(Caught(p), Inspect(p.thrown[1])),
          code |-> 1]
    ELSE [proc |-> p, code |-> 0]

\* a whole run: what the process did and how it exited
Outcome(v, av, c, f, o) == Settle(Handle(Classify(av), v, av, c, Fresh(f), o))

(***************************************************************************)
(* The state machine                                                       *)
(***************************************************************************)
Proc == [fs |-> fs, effects |-> effects, wasi |-> wasi, thrown |-> thrown]

Becomes(p) ==
    /\ fs' = p.fs
    /\ effects' = p.effects
    /\ wasi' = p.wasi
    /\ thrown' = p.thrown

Init ==
    /\ variant \in Variants
    /\ args \in ArgVectors
    /\ cwd \in WorkingDirs
    /\ fs0 \in InitialFileSystems
    /\ pc = "start"
    /\ kind = "none"
    /\ oracle = Quiet
    /\ fs = fs0
    /\ effects = <<>>
    /\ wasi = <<>>
    /\ thrown = NoError
    /\ exitCode = -1

\* the comparisons on process.argv[2] select one branch
Dispatch ==
    /\ pc = "start"
    /\ kind' = Classify(args)
    /\ pc' = "handler"
    /\ UNCHANGED <<variant, args, cwd, fs0, oracle, fs, effects, wasi, thrown, exitCode>>

\* the branch runs to its return, or to an uncaught exception
Runs(k, p) ==
    /\ pc = "handler"
    /\ kind = k
    /\ Becomes(p)
    /\ pc' = "returned"
    /\ UNCHANGED <<variant, args, cwd, fs0, kind, exitCode>>

HelpCmd == \E o \in Oracles("Help") : oracle' = o /\ Runs("Help", Help(variant, Proc))

InstallCmd == \E o \in Oracles("Install") : oracle' = o /\ Runs("Install", Install(args, cwd, Proc, o))

UninstallCmd == \E o \in Oracles("Uninstall") : oracle' = o /\ Runs("Uninstall", Uninstall(args, Proc, o))

InitCommand == \E o \in Oracles("Init") : oracle' = o /\ Runs("Init", InitCmd(cwd, Proc, o))

CreateCmd == \E o \in Oracles("Create") : oracle' = o /\ Runs("Create", CreateOf(variant, args, Proc, o))

ExecuteCmd == \E o \in Oracles("Execute") : oracle' = o /\ Runs("Execute", Execute(args, cwd, Proc, o))

\* the promise of run() settles and the process exits
Exit ==
    /\ pc = "returned"
    /\ Becomes(Settle(Proc).proc)
    /\ exitCode' = Settle(Proc).code
    /\ pc' = "exited"
    /\ UNCHANGED <<variant, args, cwd, fs0, kind, oracle>>

Next ==
    \/ Dispatch
    \/ HelpCmd
    \/ InstallCmd
    \/ UninstallCmd
    \/ InitCommand
    \/ CreateCmd
    \/ ExecuteCmd
    \/ Exit

Spec == Init /\ [][Next]_vars

(***************************************************************************)
(* Observations on a run                                                   *)
(***************************************************************************)
Exited == pc = "exited"

Ops(es, op) == {i \in 1..Len(es) : es[i].op = op}

\* the mutations of the filesystem and the host-tool invocations
Mutations(es) == Ops(es, "mkdir") \cup Ops(es, "write")

Prints(es) == Ops(es, "stdout") \cup Ops(es, "stderr")

SandboxOps == {"wasi", "read", "instantiate", "start"}

TypeOK ==
    /\ pc \in {"start", "handler", "returned", "exited"}
    /\ kind \in {"none", "Help", "Install", "Uninstall", "Init", "Create", "Execute"}
    /\ exitCode \in {-1, 0, 1}
    /\ Len(wasi) <= 1
    /\ Len(thrown) <= 1

Manifest == <<"package.json">>

HadManifest == Manifest \in DOMAIN fs0.files

Stderr == Ops(effects, "stderr")

Stdout == Ops(effects, "stdout")

Execs == Ops(effects, "exec")

\* the launcher changed nothing on disk and started no host tool
NoMutation == fs = fs0 /\ Mutations(effects) = {} /\ Execs = {}

\* the text has s as one of its segments
Contains(text, s) == \E l \in 1..Len(text) : \E j \in 1..Len(text[l]) : text[l][j] = s

\* the only printed line is `line`
PrintsOnly(op, line) ==
    /\ Cardinality(Prints(effects)) = 1
    /\ \A i \in Prints(effects) : effects[i].op = op /\ effects[i].data = <<line>>

(***************************************************************************)
(* C1: any two aliases of one alias set (install = add = i; uninstall =    *)
(* remove = rm = un), given the same trailing arguments, filesystem and    *)
(* environment, run the same handler and leave the same filesystem, the    *)
(* same sequence of side effects and the same exit code.                   *)
(***************************************************************************)
AliasSets == {{"install", "add", "i"}, {"uninstall", "remove", "rm", "un"}}

Observed == [proc |-> Proc, code |-> exitCode]

\* C1: the run under every other alias of the same set has the same handler and the same outcome
C1_AliasesEquivalent ==
    Exited /\ args # <<>> =>
        \A S \in AliasSets : args[1] \in S =>
            \A other \in S :
                /\ Classify(<<other>> \o Tail(args)) = kind
                /\ Outcome(variant, <<other>> \o Tail(args), cwd, fs0, oracle) = Observed

\* `i lodash` with no manifest: the manifest was written and npm was started
C1_Witness ==
    /\ Exited
    /\ args # <<>> /\ args[1] = "i"
    /\ Execs # {}
    /\ Ops(effects, "write") # {}

(***************************************************************************)
(* C2: one handler per process.  When argv[1] is a command name or alias   *)
(* the sandbox context is never constructed and the module is never read,  *)
(* instantiated or started, whatever the handler's outcome; for any other  *)
(* argv[1], or none, only the bootstrap runs: no internal handler prints,  *)
(* writes or starts a host tool.                                           *)
(***************************************************************************)
SandboxUntouched == wasi = <<>> /\ \A i \in 1..Len(effects) : effects[i].op \notin SandboxOps

\* every effect is the bootstrap's, but for the line the exit may print last
OnlyBootstrap ==
    /\ wasi # <<>>
    /\ fs = fs0
    /\ \A i \in 1..Len(effects) :
          \/ effects[i].op \in SandboxOps
          \/ Exited /\ i = Len(effects) /\ effects[i].op = "stderr"

\* C2: a command word never touches the sandbox; anything else runs the bootstrap only
C2_OneHandler ==
    pc \in {"returned", "exited"} =>
        IF args # <<>> /\ args[1] \in CommandWords
        THEN kind \in {"Help", "Init", "Create", "Install", "Uninstall"} /\ SandboxUntouched
        ELSE kind = "Execute" /\ OnlyBootstrap

\* an internal command whose subprocess failed
C2_Witness ==
    /\ Exited
    /\ kind = "Uninstall"
    /\ args[1] = "un"
    /\ oracle.npm = "fail"
    /\ Execs # {}

(***************************************************************************)
(* C3: on the Execute path the sandbox argument vector is the module path  *)
(* followed by the trailing arguments, in order, nothing inserted or       *)
(* dropped, and the capability grants are exactly "." -> "." and           *)
(* "/" -> "/".                                                             *)
(***************************************************************************)
C3_ArgumentForwarding ==
    /\ (pc \in {"returned", "exited"} /\ kind = "Execute" => wasi # <<>>)
    /\ wasi # <<>> =>
          /\ Len(wasi[1].args) = Len(args) + 1
          /\ wasi[1].args[1] = "__dirname/main.wasm"
          /\ \A i \in 1..Len(args) : wasi[1].args[i + 1] = args[i]
          /\ wasi[1].preopens = {<<".", ".">>, <<"/", "/">>}

\* `-e lodash app`: two distinct arguments after the flag
C3_Witness ==
    /\ Exited
    /\ args = <<"-e", "lodash", "app">>
    /\ wasi # <<>>

(***************************************************************************)
(* C4: on the Execute path a fault whose kind is "not found" (error code   *)
(* ERR_WASI_NOT_FOUND) prints nothing on standard error and exits non-     *)
(* zero; a fault of any other kind, at read, instantiate or start, other   *)
(* than the module's own exit signal, prints the fault in full on          *)
(* standard error and exits non-zero.                                      *)
(***************************************************************************)
Faulted == oracle.wasm[1] \in {"read", "instantiate", "start"} /\ oracle.wasm[2] # "process.exit"

Target ==
    IF variant = "elphadeal.js" /\ Len(args) >= 3 /\ args[3] # ""
    THEN args[3]
    ELSE IF Len(args) >= 2 THEN args[2] ELSE ""

InitConflict == args # <<>> /\ args[1] = "init" /\ HadManifest

CreateConflict ==
    /\ args # <<>> /\ args[1] = "create"
    /\ Len(args) >= 2 /\ args[2] # ""
    /\ ParsePath(Target) \in fs0.dirs

\* C5: init over an existing manifest, and create over an existing target, change nothing and exit 0
C5_ConflictsAreNoOps ==
    Exited =>
        /\ InitConflict =>
              /\ NoMutation
              /\ PrintsOnly("stdout", <<"package.json already exists.">>)
              /\ exitCode = 0
        /\ CreateConflict =>
              /\ NoMutation
              /\ PrintsOnly("stderr", <<"Error: Directory \"", Target, "\" already exists.">>)
              /\ exitCode = 0

\* `create lodash app` where app exists: the template is not installed either
C5_Witness ==
    /\ Exited
    /\ variant = "elphadeal.js"
    /\ args = <<"create", "lodash", "app">>
    /\ <<"app">> \in fs0.dirs
    /\ exitCode = 0

(***************************************************************************)
(* C6: after a fully successful create, the non-templated form             *)
(* (create <name>) has written exactly two generated files besides the     *)
(* manifest, index.js and App.js; the templated form                       *)
(* (create <template> <name>, src/elphadeal.js) has written exactly one,   *)
(* index.js, whose content contains the template name.                     *)
(* src/unnamed/part_000 has no templated form: it reads one name only.     *)
(***************************************************************************)
Generated == {i \in Ops(effects, "write") : basename(effects[i].path) # "package.json"}

GeneratedNames == {basename(effects[i].path) : i \in Generated}

CreateSucceeded ==
    /\ Exited
    /\ kind = "Create"
    /\ \E i \in Stdout : effects[i].data[1][1] = "\n[ELPHADEAL] Successfully created "

TemplatedForm == variant = "elphadeal.js" /\ Len(args) >= 3

\* C6: a successful create wrote index.js and App.js, or, templated, index.js alone naming the template
C6_GeneratedFiles ==
    CreateSucceeded =>
        /\ \A i \in Generated : dirname(effects[i].path) = ParsePath(Target)
        /\ Cardinality({i \in Ops(effects, "write") : basename(effects[i].path) = "package.json"}) = 1
        /\ IF TemplatedForm
           THEN /\ Cardinality(Generated) = 1
                /\ GeneratedNames = {"index.js"}
                /\ \A i \in Generated : Contains(effects[i].data, args[2])
                /\ ParsePath(Target) \o <<"App.js">> \notin DOMAIN fs.files
           ELSE /\ Cardinality(Generated) = 2
                /\ GeneratedNames = {"index.js", "App.js"}

\* `create lodash app` succeeded
C6_Witness ==
    /\ CreateSucceeded
    /\ variant = "elphadeal.js"
    /\ args = <<"create", "lodash", "app">>
    /\ <<"app", "index.js">> \in DOMAIN fs.files

(***************************************************************************)
(* C7: Install(name).                                                      *)
(***************************************************************************)
InstallRan == Exited /\ kind = "Install" /\ Len(args) >= 2 /\ args[2] # ""

ManifestWrites == {i \in Ops(effects, "write") : effects[i].path = Manifest}

ManifestKept == HadManifest => ManifestWrites = {} /\ fs.files[Manifest] = fs0.files[Manifest]

\* the host tool was started and failed: one generic line, nothing undone, exit 0
InstallFailureReported ==
    /\ Cardinality(Stderr) = 1
    /\ \A i \in Stderr : effects[i].data = << <<"Installation failed.">> >>
    /\ exitCode = 0

\* C7 as claimed: with a name supplied, a missing manifest is written
\* strictly before the host tool is invoked, an existing manifest is never
\* overwritten, the host tool is invoked exactly once, and when the
\* invocation fails one generic failure line is reported, a new manifest
\* stays and the exit code is 0.
C7_AsClaimed ==
    InstallRan =>
        /\ ~HadManifest => \E w \in ManifestWrites : \A e \in Execs : w < e
        /\ ManifestKept
        /\ Cardinality(Execs) = 1
        /\ oracle.npm = "fail" =>
              /\ InstallFailureReported
              /\ Manifest \in DOMAIN fs.files

\* the write of the missing manifest was refused
ManifestWriteFailed == ~HadManifest /\ oracle.fsFault = "package.json"

\* C7 as amended: the host tool is invoked at most once, and exactly once
\* unless the write of the missing manifest itself fails; then the tool is
\* not invoked at all, nothing is written, and the same single failure line
\* and exit code 0 follow.  Otherwise as claimed.
C7_InstallOrder ==
    InstallRan =>
        /\ ManifestKept
        /\ Cardinality(Execs) <= 1
        /\ IF ManifestWriteFailed
           THEN /\ Execs = {}
                /\ fs = fs0
                /\ InstallFailureReported
           ELSE /\ Cardinality(Execs) = 1
                /\ ~HadManifest => /\ Cardinality(ManifestWrites) = 1
                                   /\ \A w \in ManifestWrites : \A e \in Execs : w < e
                /\ Manifest \in DOMAIN fs.files
                /\ oracle.npm = "fail" => InstallFailureReported
                /\ oracle.npm = "ok" => Stderr = {} /\ exitCode = 0

\* the manifest was synthesized and then npm failed: the manifest is still there
C7_Witness ==
    /\ InstallRan
    /\ ~HadManifest
    /\ ManifestWrites # {}
    /\ oracle.npm = "fail"
    /\ Execs # {}
    /\ Manifest \in DOMAIN fs.files

(***************************************************************************)
(* C8: a usage error is a no-op with feedback.  install, uninstall (and    *)
(* their aliases) with no package name, and create with no project name,   *)
(* print a usage message on standard output only, start no host tool,      *)
(* write nothing (install does not synthesize a manifest) and exit 0.      *)
(* An empty-string name counts as absent.                                  *)
(***************************************************************************)
NameMissing == Len(args) = 1 \/ (Len(args) >= 2 /\ args[2] = "")

UsageError ==
    /\ args # <<>>
    /\ args[1] \in {"install", "add", "i", "uninstall", "remove", "rm", "un", "create"}
    /\ NameMissing

UsagePrinted ==
    /\ Stdout # {}
    /\ Stderr = {}
    /\ effects[1].op = "stdout"
    /\ \E verb \in {"install", "uninstall", "create"} :
          /\ Contains(effects[1].data, "Usage: ./elphadeal.js " \o verb \o " <package-name>")
                \/ Contains(effects[1].data, "Usage: ./elphadeal.js " \o verb \o " <project-name>")
                \/ Contains(effects[1].data, "Usage: ./elphadeal.js " \o verb \o " [template] <project-name>")
          /\ (verb = "install") = (args[1] \in {"install", "add", "i"})
          /\ (verb = "create") = (args[1] = "create")

\* C8: a missing name prints usage on standard output, changes nothing and exits 0
C8_UsageIsNoOp ==
    Exited /\ UsageError =>
        /\ NoMutation
        /\ UsagePrinted
        /\ exitCode = 0

\* `i` alone in a directory without a manifest: none is synthesized
C8_Witness ==
    /\ Exited
    /\ args = <<"i">>
    /\ ~HadManifest
    /\ Manifest \notin DOMAIN fs.files
    /\ Stdout # {}

(***************************************************************************)
(* C9: every manifest the launcher writes (init, create, Install's         *)
(* pre-step) has a name equal to the base name of the directory it is      *)
(* written into and a dependency mapping that is present and empty.        *)
(***************************************************************************)
HasLine(text, line) == \E l \in 1..Len(text) : text[l] = line

\* the directory a file of the working directory's tree is written into
DirectoryOf(path) == cwd \o dirname(path)

WellFormedManifest(i) ==
    /\ HasLine(effects[i].data, <<"name", "str", basename(DirectoryOf(effects[i].path))>>)
    /\ HasLine(effects[i].data, <<"dependencies", "obj">>)

\* C9: every manifest written is named after its directory and has empty dependencies
C9_AsClaimed ==
    \A i \in Ops(effects, "write") :
        basename(effects[i].path) = "package.json" => WellFormedManifest(i)

(***************************************************************************)
(* C10: create scaffolds in the order: make the directory, write the       *)
(* manifest, (templated only) install the template package inside the new  *)
(* directory, write the generated sources.  Whatever step fails, nothing   *)
(* already created is removed; when the template install fails the         *)
(* directory and manifest exist, no entry or companion file was written,   *)
(* the failure is reported once and the exit code is 0.                    *)
(***************************************************************************)
Mkdirs == Ops(effects, "mkdir")

ProjectManifestWrites == {i \in Ops(effects, "write") : basename(effects[i].path) = "package.json"}

ScaffoldOrder ==
    /\ \A m \in Mkdirs : \A w \in ProjectManifestWrites : m < w
    /\ \A w \in ProjectManifestWrites : \A e \in Execs : w < e
    /\ \A w \in ProjectManifestWrites : \A g \in Generated : w < g
    /\ \A e \in Execs : \A g \in Generated : e < g
    /\ \A i \in Mutations(effects) \cup Execs : Mkdirs # {} /\ \A m \in Mkdirs : m <= i
    /\ \A e \in Execs : /\ effects[e].path = ParsePath(Target)
                        /\ effects[e].data = << <<"npm", "install", args[2]>> >>

\* everything made is still there at exit, and so is all that was there before
NothingRemoved ==
    /\ fs0.dirs \subseteq fs.dirs
    /\ \A q \in DOMAIN fs0.files : q \in DOMAIN fs.files /\ fs.files[q] = fs0.files[q]
    /\ \A i \in Mkdirs : effects[i].path \in fs.dirs
    /\ \A i \in Ops(effects, "write") : effects[i].path \in DOMAIN fs.files

\* the scaffold was started and did not reach its end
ScaffoldFailed == Mkdirs # {} /\ ~CreateSucceeded

TemplateInstallFailed == Execs # {} /\ oracle.npm = "fail"

\* C10: create keeps the scaffold order and removes nothing when a step fails
C10_ScaffoldOrderNoRollback ==
    Exited /\ kind = "Create" =>
        /\ ScaffoldOrder
        /\ NothingRemoved
        /\ ScaffoldFailed =>
              /\ Cardinality(Stderr) = 1
              /\ \A i \in Stderr : effects[i].data[1][1] = "Failed to create project:"
              /\ exitCode = 0
        /\ TemplateInstallFailed =>
              /\ ScaffoldFailed
              /\ ParsePath(Target) \in fs.dirs
              /\ ParsePath(Target) \o <<"package.json">> \in DOMAIN fs.files
              /\ Generated = {}
              /\ ParsePath(Target) \o <<"index.js">> \notin DOMAIN fs.files
              /\ ParsePath(Target) \o <<"App.js">> \notin DOMAIN fs.files

\* `create lodash app`: the directory and manifest were made, then npm failed
C10_Witness ==
    /\ Exited
    /\ kind = "Create"
    /\ TemplateInstallFailed
    /\ <<"app">> \in fs.dirs
    /\ <<"app", "package.json">> \in DOMAIN fs.files

====
